---- MODULE Spec2Model ----
(***************************************************************************)
(* BrandBoost: the client form (src/src/app/client.tsx) and the generation *)
(* flow (src/src/ai/flows/generate-marketing-asset-templates.ts) as a      *)
(* state machine.  One action per event handler or asynchronous           *)
(* continuation; the browser runs each of them to completion.             *)
(***************************************************************************)
EXTENDS Integers, Sequences, FiniteSets, TLC

VARIABLES
  form,            \* react-hook-form field values
  generatedImage,  \* useState<string | null>
  isLoading,       \* useState(false)
  downloadFormat,  \* useState('png')
  preview,         \* logoPreview, referenceImage1Preview, referenceImage2Preview
  effectUrl,       \* previewUrl captured by each preview effect's cleanup closure
  objectUrls,      \* object URLs created and not yet revoked
  subs,            \* invocations of onSubmit / of the flow that have not finished
  imgLoads,        \* window.Image loads started by handleDownload, not yet settled
  event            \* what the last step showed the user (toast, file save, ...)

vars == <<form, generatedImage, isLoading, downloadFormat, preview, effectUrl,
          objectUrls, subs, imgLoads, event>>

---------------------------------------------------------------------------
\* Bounds of the model.
MaxUrls == 3
MaxInFlight == 2
MaxImgLoads == 1

---------------------------------------------------------------------------
\* JavaScript values.  Strings stay strings; null and undefined are markers.
null == "<null>"
undefined == "<undefined>"

\* JS truthiness of a string | null | undefined value.
Truthy(s) == s # null /\ s # undefined /\ s # ""

\* A file-field value: a FileList (items), or null / undefined (nullish).
NoFiles == [nullish |-> TRUE, items |-> <<>>]
FileList(items) == [nullish |-> FALSE, items |-> items]

MAX_FILE_SIZE == 5 * 1024 * 1024
ACCEPTED_IMAGE_TYPES == {"image/jpeg", "image/jpg", "image/png", "image/webp"}

\* Files the user can pick from disk.
PngAtLimit == [name |-> "logo.png", type |-> "image/png", size |-> MAX_FILE_SIZE]
JpegOverLimit == [name |-> "big.jpg", type |-> "image/jpeg", size |-> MAX_FILE_SIZE + 1]
SmallGif == [name |-> "anim.gif", type |-> "image/gif", size |-> 1]

FileFields == {"logo", "referenceImage1", "referenceImage2"}

\* What e.target.files can hold for each input (no `multiple`: at most one file).
FileChoices(field) ==
  CASE field = "logo" -> {<<PngAtLimit>>, <<SmallGif>>}
    [] field = "referenceImage1" -> {<<>>, <<PngAtLimit>>, <<JpegOverLimit>>}
    [] OTHER -> {<<PngAtLimit>>}

\* The text inputs the model types into, and what it types.
TextFields == {"businessName", "imageDescription"}

TextChoices(field) ==
  CASE field = "businessName" -> {"", "Acme"}
    [] OTHER -> {"", "sale"}

---------------------------------------------------------------------------
\* Validation (zod).

\* files?.length == 1
HasOneFile(files) == ~files.nullish /\ Len(files.items) = 1

\* Variant: the size limit taken as exclusive.
SizeBelowLimit(files) ==
  /\ ~files.nullish
  /\ Len(files.items) > 0
  /\ files.items[1].size < MAX_FILE_SIZE

\* files?.[0]?.size <= MAX_FILE_SIZE   (undefined <= n is false)
SizeOk(files) ==
  /\ ~files.nullish
  /\ Len(files.items) > 0
  /\ files.items[1].size <= MAX_FILE_SIZE

\* ACCEPTED_IMAGE_TYPES.includes(files?.[0]?.type)
TypeOk(files) ==
  /\ ~files.nullish
  /\ Len(files.items) > 0
  /\ files.items[1].type \in ACCEPTED_IMAGE_TYPES

\* !files || files.length === 0
Absent(files) == files.nullish \/ Len(files.items) = 0

imageFileSchema(files) ==
  {m \in {"Max file size is 5MB."} : ~(Absent(files) \/ SizeOk(files))}
  \cup {m \in {".jpg, .jpeg, .png and .webp files are accepted."} :
          ~(Absent(files) \/ TypeOk(files))}

logoSchema(files) ==
  {m \in {"Logo is required."} : ~HasOneFile(files)}
  \cup {m \in {"Max file size is 5MB."} : ~SizeOk(files)}
  \cup {m \in {".jpg, .jpeg, .png and .webp files are accepted."} : ~TypeOk(files)}

businessNameSchema(s) ==
  {m \in {"Business name must be at least 2 characters."} : Len(s) < 2}

assetTypeSchema(s) ==
  {m \in {"Please select an asset type."} : Len(s) < 1}

imageDescriptionSchema(s) ==
  {m \in {"Image description is required."} : Len(s) < 1}

\* Variant: formSchema without the imageDescription rule.
formSchemaWithoutDescription(values) ==
  {f \in {"logo"} : logoSchema(values.logo) # {}}
  \cup {f \in {"businessName"} : businessNameSchema(values.businessName) # {}}
  \cup {f \in {"assetType"} : assetTypeSchema(values.assetType) # {}}
  \cup {f \in {"referenceImage1"} : imageFileSchema(values.referenceImage1) # {}}
  \cup {f \in {"referenceImage2"} : imageFileSchema(values.referenceImage2) # {}}

\* The fields formSchema reports an error for.
formSchema(values) ==
  {f \in {"logo"} : logoSchema(values.logo) # {}}
  \cup {f \in {"businessName"} : businessNameSchema(values.businessName) # {}}
  \cup {f \in {"assetType"} : assetTypeSchema(values.assetType) # {}}
  \cup {f \in {"imageDescription"} : imageDescriptionSchema(values.imageDescription) # {}}
  \cup {f \in {"referenceImage1"} : imageFileSchema(values.referenceImage1) # {}}
  \cup {f \in {"referenceImage2"} : imageFileSchema(values.referenceImage2) # {}}

---------------------------------------------------------------------------
\* The component after its first render.
ClientInit ==
  /\ form = [logo |-> NoFiles,
             businessName |-> "",
             assetType |-> "Social Media Post",
             imageDescription |-> "",
             referenceImage1 |-> NoFiles,
             referenceImage2 |-> NoFiles,
             customText |-> "",
             colorPalette |-> ""]
  /\ generatedImage = null
  /\ isLoading = FALSE
  /\ downloadFormat = "png"
  /\ preview = [f \in FileFields |-> null]
  /\ effectUrl = [f \in FileFields |-> null]
  /\ objectUrls = {}
  /\ imgLoads = <<>>
  /\ event = [op |-> "none"]

Init ==
  /\ ClientInit
  /\ subs = <<>>

---------------------------------------------------------------------------
\* Object URLs and the preview effects.

\* URL.createObjectURL(file): a URL different from every URL still in use.
\* (A revoked URL is held by nothing, so its name is free again.)
createObjectURL(urls, file) ==
  "blob:" \o file.name \o "#" \o
    ToString(CHOOSE n \in 1..(Cardinality(urls) + 1) :
               /\ ("blob:" \o file.name \o "#" \o ToString(n)) \notin urls
               /\ \A m \in 1..(n - 1) :
                    ("blob:" \o file.name \o "#" \o ToString(m)) \in urls)

\* Variant: the cleanup revokes nothing.
revokeNothing(urls, url) == urls

\* URL.revokeObjectURL(url)
revokeObjectURL(urls, url) == urls \ {url}

\* The cleanup the previous run of a field's effect returned, run before the
\* effect runs again: revoke its previewUrl, if it made one.
EffectCleanup(urls, field) ==
  IF effectUrl[field] = null THEN urls ELSE revokeObjectURL(urls, effectUrl[field])

\* useEffect(..., [file]) for one file field, after its value became `files`.
PreviewEffect(field, files) ==
  IF ~files.nullish /\ Len(files.items) > 0
    THEN LET previewUrl == createObjectURL(EffectCleanup(objectUrls, field), files.items[1]) IN
         /\ preview' = [preview EXCEPT ![field] = previewUrl]
         /\ effectUrl' = [effectUrl EXCEPT ![field] = previewUrl]
         /\ objectUrls' = EffectCleanup(objectUrls, field) \cup {previewUrl}
    ELSE /\ preview' = [preview EXCEPT ![field] = null]
         /\ effectUrl' = [effectUrl EXCEPT ![field] = null]
         /\ objectUrls' = EffectCleanup(objectUrls, field)

\* FileUpload's <Input type="file" onChange>: rendered only while the field
\* has no preview.
FileChange(field, items) ==
  /\ preview[field] = null
  /\ Cardinality(objectUrls) < MaxUrls
  /\ form' = [form EXCEPT ![field] = FileList(items)]
  /\ PreviewEffect(field, FileList(items))
  /\ event' = [op |-> "none"]
  /\ UNCHANGED <<generatedImage, isLoading, downloadFormat, subs, imgLoads>>

\* ImagePreview's remove button: form.setValue(field, null, {shouldValidate: true}).
RemoveFile(field) ==
  /\ preview[field] # null
  /\ form' = [form EXCEPT ![field] = NoFiles]
  /\ PreviewEffect(field, NoFiles)
  /\ event' = [op |-> "remove", field |-> field]
  /\ UNCHANGED <<generatedImage, isLoading, downloadFormat, subs, imgLoads>>

\* Typing into a text input or textarea.
SetText(field, value) ==
  /\ form[field] # value
  /\ form' = [form EXCEPT ![field] = value]
  /\ event' = [op |-> "none"]
  /\ UNCHANGED <<generatedImage, isLoading, downloadFormat, preview, effectUrl,
                 objectUrls, subs, imgLoads>>

---------------------------------------------------------------------------
\* The generation flow (server side).  The client imports
\* generateMarketingAssetTemplates from '@/app/actions'; it is taken to be the
\* function of that name the flow file exports.  The file holds two variants
\* of the flow; this is the first, the one whose input onSubmit builds.

\* The image the external service answers with when it answers with one.
ServiceImage == "data:image/png;base64,ASSET"

\* z.object({...}) of the flow's input: the four required fields must be
\* strings (present); the optional ones may be absent.  No minimum length.
GenerateMarketingAssetTemplatesInputSchema(input) ==
  /\ input.businessLogoDataUri # undefined
  /\ input.businessName # undefined
  /\ input.assetType # undefined
  /\ input.imageDescription # undefined

\* Variant: `${input.customText}`, the value printed as it is.
OrEmptyAsIs(s) == s

\* `${input.customText || ''}`
OrEmpty(s) == IF Truthy(s) THEN s ELSE ""

promptText(input) ==
  "You are a professional graphic designer AI assistant that creates high-quality, modern, and creative marketing assets for businesses.\n\nGenerate a "
  \o input.assetType
  \o " based on the following description: \""
  \o input.imageDescription
  \o "\".\n\nIncorporate the user's provided business logo and name in a clean, visually appealing way. Use the custom text and color palette if provided.\n\nIf reference images are provided, use them for general inspiration only. Do not copy any text or graphics from the reference images.\n\nBusiness Name: "
  \o input.businessName
  \o "\nCustom Text: "
  \o OrEmpty(input.customText)
  \o "\nColor Palette: "
  \o OrEmpty(input.colorPalette)
  \o "\n"

TextPart(s) == [kind |-> "text", text |-> s]
MediaPart(u) == [kind |-> "media", url |-> u]

\* Variant: the image pushed before its label.
ReferencePartsImageFirst(label, uri) ==
  IF Truthy(uri) THEN <<MediaPart(uri), TextPart(label)>> ELSE <<>>

\* prompt.push(...) of one reference image, when it is truthy.
ReferenceParts(label, uri) ==
  IF Truthy(uri) THEN <<TextPart(label), MediaPart(uri)>> ELSE <<>>

\* The prompt array handed to ai.generate.
BuildPrompt(input) ==
  <<TextPart(promptText(input)), MediaPart(input.businessLogoDataUri)>>
  \o ReferenceParts("Reference Image 1:", input.referenceImage1DataUri)
  \o ReferenceParts("Reference Image 2:", input.referenceImage2DataUri)

\* What ai.generate can come back with: media, media with an empty url,
\* no media, or a thrown error (network, quota, service).
ServiceOutcomes == {"media", "emptyUrl", "noMedia", "error"}

\* The flow after `await ai.generate(...)`: throw when there is no media,
\* else return {assetDataUri: media.url}.
FlowResult(outcome) ==
  CASE outcome = "media" -> [ok |-> TRUE, assetDataUri |-> ServiceImage]
    [] outcome = "emptyUrl" -> [ok |-> TRUE, assetDataUri |-> ""]
    [] outcome = "noMedia" -> [ok |-> FALSE, assetDataUri |-> "Image generation failed."]
    [] OTHER -> [ok |-> FALSE, assetDataUri |-> "service error"]

NoInput == [businessLogoDataUri |-> undefined,
            businessName |-> undefined,
            assetType |-> undefined,
            imageDescription |-> undefined,
            customText |-> undefined,
            colorPalette |-> undefined,
            referenceImage1DataUri |-> undefined,
            referenceImage2DataUri |-> undefined]

\* subs without its i-th element.
RemoveAt(seq, i) == SubSeq(seq, 1, i - 1) \o SubSeq(seq, i + 1, Len(seq))

\* Variant: the flow calls ai.generate a second time.
FlowCallWithRetry(sub, input) ==
  IF GenerateMarketingAssetTemplatesInputSchema(input)
    THEN [sub EXCEPT !.pc = "generate",
                     !.input = input,
                     !.prompt = BuildPrompt(input),
                     !.calls = sub.calls + 2]
    ELSE [sub EXCEPT !.pc = "zodError", !.input = input]

\* generateMarketingAssetTemplates(input) up to `await ai.generate(...)`: the
\* input schema is parsed; when it accepts, the prompt is assembled and
\* ai.generate is called once; when it rejects, the call fails at once.
FlowCall(sub, input) ==
  IF GenerateMarketingAssetTemplatesInputSchema(input)
    THEN [sub EXCEPT !.pc = "generate",
                     !.input = input,
                     !.prompt = BuildPrompt(input),
                     !.calls = sub.calls + 1]
    ELSE [sub EXCEPT !.pc = "zodError", !.input = input]

---------------------------------------------------------------------------
\* The client: form.handleSubmit(onSubmit) and onSubmit.

\* fileToDataUri: FileReader.readAsDataURL(file), once it has loaded.
fileToDataUri(file) == "data:" \o file.type \o ";base64," \o file.name

\* values.referenceImage1?.[0] is truthy
HasFile(files) == ~files.nullish /\ Len(files.items) > 0

\* Variant: the submit button never disabled.
SubmitAlwaysEnabled == TRUE

\* The submit button: disabled={isLoading}.
SubmitEnabled == ~isLoading

\* Variant: onSubmit leaves generatedImage alone.
ImageKeptAtSubmit == generatedImage

\* setGeneratedImage(null) at the start of onSubmit.
ImageAtSubmit == null

\* The argument of generateMarketingAssetTemplates in onSubmit.
RequestInput(sub) ==
  [businessLogoDataUri |-> sub.businessLogoDataUri,
   businessName |-> sub.values.businessName,
   assetType |-> sub.values.assetType,
   imageDescription |-> sub.values.imageDescription,
   customText |-> sub.values.customText,
   colorPalette |-> sub.values.colorPalette,
   referenceImage1DataUri |-> sub.referenceImage1DataUri,
   referenceImage2DataUri |-> sub.referenceImage2DataUri]

\* Variant: onSubmit without setIsLoading(true).
SubmitWithoutLoading ==
  /\ SubmitEnabled
  /\ Len(subs) < MaxInFlight
  /\ IF formSchema(form) # {}
       THEN /\ event' = [op |-> "invalid"]
            /\ UNCHANGED <<isLoading, generatedImage, subs>>
       ELSE /\ UNCHANGED isLoading
            /\ generatedImage' = ImageAtSubmit
            /\ subs' = Append(subs, [caller |-> "onSubmit",
                                     values |-> form,
                                     prior |-> generatedImage,
                                     pc |-> "readLogo",
                                     businessLogoDataUri |-> undefined,
                                     referenceImage1DataUri |-> undefined,
                                     referenceImage2DataUri |-> undefined,
                                     input |-> NoInput,
                                     prompt |-> <<>>,
                                     calls |-> 0])
            /\ event' = [op |-> "none"]
  /\ UNCHANGED <<form, downloadFormat, preview, effectUrl, objectUrls, imgLoads>>

\* A click on the submit button (or an implicit submission, which a disabled
\* default button also blocks): handleSubmit validates the form values with
\* zodResolver(formSchema) and calls onSubmit only when there is no error.
\* The resolver settles in promise continuations of the click's own task, so
\* validation, setIsLoading(true), setGeneratedImage(null) and the start of
\* the logo's FileReader, onSubmit's first await, are one step.
Submit ==
  /\ SubmitEnabled
  /\ Len(subs) < MaxInFlight
  /\ IF formSchema(form) # {}
       THEN /\ event' = [op |-> "invalid"]
            /\ UNCHANGED <<isLoading, generatedImage, subs>>
       ELSE /\ isLoading' = TRUE
            /\ generatedImage' = ImageAtSubmit
            /\ subs' = Append(subs, [caller |-> "onSubmit",
                                     values |-> form,
                                     prior |-> generatedImage,
                                     pc |-> "readLogo",
                                     businessLogoDataUri |-> undefined,
                                     referenceImage1DataUri |-> undefined,
                                     referenceImage2DataUri |-> undefined,
                                     input |-> NoInput,
                                     prompt |-> <<>>,
                                     calls |-> 0])
            /\ event' = [op |-> "none"]
  /\ UNCHANGED <<form, downloadFormat, preview, effectUrl, objectUrls, imgLoads>>

\* Variant: the failure path without the finally block.
OnSubmitFailStillLoading(i, cause, calls) ==
  /\ subs' = RemoveAt(subs, i)
  /\ event' = [op |-> "finished", toast |-> "Generation Failed", cause |-> cause,
               calls |-> calls, prior |-> subs[i].prior]
  /\ UNCHANGED <<generatedImage, isLoading>>

\* The catch and finally blocks of onSubmit, ending the invocation.
OnSubmitFail(i, cause, calls) ==
  /\ isLoading' = FALSE
  /\ subs' = RemoveAt(subs, i)
  /\ event' = [op |-> "finished", toast |-> "Generation Failed", cause |-> cause,
               calls |-> calls, prior |-> subs[i].prior]
  /\ UNCHANGED generatedImage

\* Variant: generateMarketingAssetTemplates is called as soon as the logo has
\* been read, the reference images not awaited.
AfterReadLogoOnly(sub) == FlowCall(sub, RequestInput(sub))

\* onSubmit after a file has been read: read the next file that is present,
\* else call generateMarketingAssetTemplates.
AfterRead(sub) ==
  IF sub.pc = "readLogo" /\ HasFile(sub.values.referenceImage1)
    THEN [sub EXCEPT !.pc = "readRef1"]
  ELSE IF sub.pc \in {"readLogo", "readRef1"} /\ HasFile(sub.values.referenceImage2)
    THEN [sub EXCEPT !.pc = "readRef2"]
  ELSE FlowCall(sub, RequestInput(sub))

\* The file being read at each read position.
FileBeingRead(sub) ==
  CASE sub.pc = "readLogo" -> sub.values.logo.items[1]
    [] sub.pc = "readRef1" -> sub.values.referenceImage1.items[1]
    [] OTHER -> sub.values.referenceImage2.items[1]

\* sub with the data URI of the file it was reading.
WithDataUri(sub, uri) ==
  CASE sub.pc = "readLogo" -> [sub EXCEPT !.businessLogoDataUri = uri]
    [] sub.pc = "readRef1" -> [sub EXCEPT !.referenceImage1DataUri = uri]
    [] OTHER -> [sub EXCEPT !.referenceImage2DataUri = uri]

\* reader.onload: the awaited fileToDataUri resolves and onSubmit goes on to
\* its next await.
ReaderLoad(i) ==
  /\ subs[i].caller = "onSubmit"
  /\ subs[i].pc \in {"readLogo", "readRef1", "readRef2"}
  /\ LET next == AfterRead(WithDataUri(subs[i], fileToDataUri(FileBeingRead(subs[i]))))
     IN IF next.pc = "zodError"
          THEN OnSubmitFail(i, "schema", next.calls)
          ELSE /\ subs' = [subs EXCEPT ![i] = next]
               /\ event' = [op |-> "none"]
               /\ UNCHANGED <<generatedImage, isLoading>>
  /\ UNCHANGED <<form, downloadFormat, preview, effectUrl, objectUrls, imgLoads>>

\* reader.onerror: the awaited fileToDataUri rejects.
ReaderError(i) ==
  /\ subs[i].caller = "onSubmit"
  /\ subs[i].pc \in {"readLogo", "readRef1", "readRef2"}
  /\ OnSubmitFail(i, "read", subs[i].calls)
  /\ UNCHANGED <<form, downloadFormat, preview, effectUrl, objectUrls, imgLoads>>

\* Variant: `if (result)`, the assetDataUri not looked at.
GenerateSettleAnyResult(i, outcome) ==
  /\ subs[i].caller = "onSubmit"
  /\ subs[i].pc = "generate"
  /\ LET result == FlowResult(outcome)
     IN IF result.ok
          THEN /\ generatedImage' = result.assetDataUri
               /\ isLoading' = FALSE
               /\ subs' = RemoveAt(subs, i)
               /\ event' = [op |-> "finished", toast |-> "Asset Generated!",
                            cause |-> outcome, calls |-> subs[i].calls,
                            prior |-> subs[i].prior]
          ELSE OnSubmitFail(i, outcome, subs[i].calls)
  /\ UNCHANGED <<form, downloadFormat, preview, effectUrl, objectUrls, imgLoads>>

\* ai.generate settles, the flow returns or throws, and onSubmit goes on
\* after `await generateMarketingAssetTemplates(...)`.
GenerateSettle(i, outcome) ==
  /\ subs[i].caller = "onSubmit"
  /\ subs[i].pc = "generate"
  /\ LET result == FlowResult(outcome)
     IN IF result.ok /\ Truthy(result.assetDataUri)
          THEN /\ generatedImage' = result.assetDataUri
               /\ isLoading' = FALSE
               /\ subs' = RemoveAt(subs, i)
               /\ event' = [op |-> "finished", toast |-> "Asset Generated!",
                            cause |-> outcome, calls |-> subs[i].calls,
                            prior |-> subs[i].prior]
          ELSE OnSubmitFail(i, outcome, subs[i].calls)
  /\ UNCHANGED <<form, downloadFormat, preview, effectUrl, objectUrls, imgLoads>>

---------------------------------------------------------------------------
\* Download: handleDownload and the off-screen canvas.

\* A pixel: a grey level c and an alpha a, both 0..255.
Pixel(c, a) == [c |-> c, a |-> a]

\* What the browser decodes a generated image to (img.width, img.height and
\* its pixels, row by row): the asset has a transparent, an opaque and a
\* half-transparent pixel.
DecodeImage(uri) ==
  IF uri = ServiceImage
    THEN [width |-> 2, height |-> 2,
          pixels |-> <<Pixel(0, 0), Pixel(0, 255), Pixel(100, 128), Pixel(255, 255)>>]
    ELSE [width |-> 0, height |-> 0, pixels |-> <<>>]

\* Source-over compositing of pixel s on pixel d.
Over(s, d) ==
  LET a == s.a + (d.a * (255 - s.a)) \div 255
  IN IF a = 0 THEN Pixel(0, 0)
     ELSE Pixel((s.c * s.a + (d.c * d.a * (255 - s.a)) \div 255) \div a, a)

\* document.createElement('canvas') with canvas.width, canvas.height set:
\* transparent black.
NewCanvas(w, h) ==
  [width |-> w, height |-> h, pixels |-> [i \in 1..(w * h) |-> Pixel(0, 0)]]

\* ctx.fillStyle = '#FFFFFF'; ctx.fillRect(0, 0, canvas.width, canvas.height)
fillRectWhite(canvas) ==
  [canvas EXCEPT !.pixels = [i \in 1..Len(canvas.pixels) |->
                               Over(Pixel(255, 255), canvas.pixels[i])]]

\* ctx.drawImage(img, 0, 0) on a canvas of the image's size.
drawImage(canvas, img) ==
  [canvas EXCEPT !.pixels = [i \in 1..Len(canvas.pixels) |->
                               Over(img.pixels[i], canvas.pixels[i])]]

\* canvas.toDataURL('image/jpeg', 0.9): JPEG has no alpha, the bitmap is
\* composited on opaque black and encoded (the lossy step is not modelled).
toDataURLJpeg(canvas) ==
  "data:image/jpeg;base64," \o
    ToString(<<canvas.width, canvas.height,
               [i \in 1..Len(canvas.pixels) |-> Over(canvas.pixels[i], Pixel(0, 255)).c]>>)

\* Variant: the image drawn on the canvas without the white fill.
PaintedCanvasNoFill(img) == drawImage(NewCanvas(img.width, img.height), img)

\* The canvas handleDownload paints in img.onload.
PaintedCanvas(img) == drawImage(fillRectWhite(NewCanvas(img.width, img.height)), img)

\* Variant: the business name used as it is, without the fixed name.
DownloadNameNoFallback(format) == form.businessName \o "-asset." \o format

\* link.download in downloadWithFormat.
DownloadName(format) ==
  (IF Truthy(form.businessName) THEN form.businessName ELSE "brandboost")
  \o "-asset." \o format

\* downloadWithFormat(uri, format): link.click() saves uri under link.download.
downloadWithFormat(uri, format, src) ==
  [op |-> "download", href |-> uri, download |-> DownloadName(format),
   format |-> format, src |-> src]

\* Variant: the download button never disabled.
DownloadAlwaysEnabled == TRUE

\* The download button: disabled={!generatedImage || isLoading}.
DownloadEnabled == Truthy(generatedImage) /\ ~isLoading

\* handleDownload: a click on the download button.
HandleDownload ==
  /\ DownloadEnabled
  /\ Truthy(generatedImage)
  /\ IF downloadFormat = "jpeg"
       THEN /\ Len(imgLoads) < MaxImgLoads
            /\ imgLoads' = Append(imgLoads, generatedImage)
            /\ event' = [op |-> "none"]
       ELSE /\ event' = downloadWithFormat(generatedImage, "png", generatedImage)
            /\ UNCHANGED imgLoads
  /\ UNCHANGED <<form, generatedImage, isLoading, downloadFormat, preview, effectUrl,
                 objectUrls, subs>>

\* img.onload of a pending conversion; hasCtx is whether
\* canvas.getContext('2d') returned a context.
ImgOnload(i, hasCtx) ==
  /\ imgLoads' = RemoveAt(imgLoads, i)
  /\ event' = IF hasCtx
                THEN downloadWithFormat(toDataURLJpeg(PaintedCanvas(DecodeImage(imgLoads[i]))),
                                        "jpeg", imgLoads[i])
                ELSE [op |-> "none"]
  /\ UNCHANGED <<form, generatedImage, isLoading, downloadFormat, preview, effectUrl,
                 objectUrls, subs>>

\* The image fails to load: no handler is registered, nothing is saved.
ImgError(i) ==
  /\ imgLoads' = RemoveAt(imgLoads, i)
  /\ event' = [op |-> "none"]
  /\ UNCHANGED <<form, generatedImage, isLoading, downloadFormat, preview, effectUrl,
                 objectUrls, subs>>

\* The format <Select onValueChange={setDownloadFormat} disabled={!generatedImage}>.
SetDownloadFormat(format) ==
  /\ Truthy(generatedImage)
  /\ downloadFormat # format
  /\ downloadFormat' = format
  /\ event' = [op |-> "none"]
  /\ UNCHANGED <<form, generatedImage, isLoading, preview, effectUrl, objectUrls,
                 subs, imgLoads>>

Next ==
  \/ \E field \in FileFields : \E items \in FileChoices(field) : FileChange(field, items)
  \/ \E field \in FileFields : RemoveFile(field)
  \/ \E field \in TextFields : \E value \in TextChoices(field) : SetText(field, value)
  \/ Submit
  \/ \E i \in 1..Len(subs) : ReaderLoad(i)
  \/ \E i \in 1..Len(subs) : ReaderError(i)
  \/ \E i \in 1..Len(subs) : \E outcome \in ServiceOutcomes : GenerateSettle(i, outcome)
  \/ \E format \in {"png", "jpeg"} : SetDownloadFormat(format)
  \/ HandleDownload
  \/ \E i \in 1..Len(imgLoads) : \E hasCtx \in BOOLEAN : ImgOnload(i, hasCtx)
  \/ \E i \in 1..Len(imgLoads) : ImgError(i)

Spec == Init /\ [][Next]_vars

---------------------------------------------------------------------------
\* The flow called directly, without the form in front of it.

Absentable(values) == {undefined, ""} \cup values

\* The inputs tried on a direct call.
FlowInputs ==
  [businessLogoDataUri : Absentable({"data:image/png;base64,logo.png"}),
   businessName : Absentable({"Acme"}),
   assetType : Absentable({"Flyer"}),
   imageDescription : Absentable({"sale"}),
   customText : Absentable({"50% off"}),
   colorPalette : {undefined, "blue"},
   referenceImage1DataUri : Absentable({"data:image/png;base64,ref1.png"}),
   referenceImage2DataUri : {undefined, "data:image/png;base64,ref2.png"}]

\* A direct call that has not reached the flow yet.
DirectCall(input) ==
  [caller |-> "direct", pc |-> "call", input |-> input, prompt |-> <<>>, calls |-> 0]

\* generateMarketingAssetTemplates(input) runs up to `await ai.generate(...)`,
\* or throws the schema's error.
DirectStart(i) ==
  /\ subs[i].caller = "direct"
  /\ subs[i].pc = "call"
  /\ LET call == FlowCall(subs[i], subs[i].input)
     IN IF call.pc = "zodError"
          THEN /\ subs' = RemoveAt(subs, i)
               /\ event' = [op |-> "flowThrew", error |-> "ZodError", call |-> call]
          ELSE /\ subs' = [subs EXCEPT ![i] = call]
               /\ event' = [op |-> "none"]
  /\ UNCHANGED <<form, generatedImage, isLoading, downloadFormat, preview, effectUrl,
                 objectUrls, imgLoads>>

\* ai.generate settles and the flow returns to its direct caller, or throws.
DirectSettle(i, outcome) ==
  /\ subs[i].caller = "direct"
  /\ subs[i].pc = "generate"
  /\ subs' = RemoveAt(subs, i)
  /\ event' = IF FlowResult(outcome).ok
                THEN [op |-> "flowReturned", result |-> FlowResult(outcome), call |-> subs[i]]
                ELSE [op |-> "flowThrew", error |-> FlowResult(outcome).assetDataUri,
                      call |-> subs[i]]
  /\ UNCHANGED <<form, generatedImage, isLoading, downloadFormat, preview, effectUrl,
                 objectUrls, imgLoads>>

FlowNext ==
  \/ \E i \in 1..Len(subs) : DirectStart(i)
  \/ \E i \in 1..Len(subs) : \E outcome \in ServiceOutcomes : DirectSettle(i, outcome)

\* One call, with any of the inputs, on a page nobody has touched.
FlowInit ==
  /\ ClientInit
  /\ subs \in {<<DirectCall(input)>> : input \in FlowInputs}

FlowSpec == FlowInit /\ [][FlowNext]_vars

---------------------------------------------------------------------------
\* The second variant of the flow in the same file: no image description and
\* no reference images in its input, and the prompt is a template rendered by
\* generationPrompt.render({input}).

\* z.object({...}) of the second variant: three required strings.
GenerateMarketingAssetTemplatesInputSchemaV2(input) ==
  /\ input.businessLogoDataUri # undefined
  /\ input.businessName # undefined
  /\ input.assetType # undefined

\* {{#if value}}'{{{value}}}'{{/if}}
IfQuoted(s) == IF Truthy(s) THEN "'" \o s \o "'" ELSE ""

\* The template up to {{media url=businessLogoDataUri}}.
generationPromptHead(input) ==
  "You are a professional graphic designer AI assistant that creates high-quality, modern, and creative marketing assets for businesses.\n\nGenerate a "
  \o input.assetType
  \o " that incorporates the user's provided business logo and name in a clean, visually appealing way. Use the custom text and color palette if provided.\n\nBusiness Name: "
  \o input.businessName
  \o "\nBusiness Logo: "

\* The template after {{media url=businessLogoDataUri}}.
generationPromptTail(input) ==
  "\nCustom Text: "
  \o IfQuoted(input.customText)
  \o "\nColor Palette: "
  \o IfQuoted(input.colorPalette)
  \o "\n"

\* generationPrompt.render({input}): the rendered template, cut at the media
\* helper into a text part, the logo and a text part.
generationPrompt(input) ==
  <<TextPart(generationPromptHead(input)),
    MediaPart(input.businessLogoDataUri),
    TextPart(generationPromptTail(input))>>

\* The inputs tried on a direct call of the second variant.
FlowInputsV2 ==
  [businessLogoDataUri : Absentable({"data:image/png;base64,logo.png"}),
   businessName : Absentable({"Acme"}),
   assetType : Absentable({"Flyer"}),
   customText : Absentable({"50% off"}),
   colorPalette : Absentable({"blue"})]

\* A direct call of the second variant that has not reached the flow yet.
DirectCallV2(input) ==
  [caller |-> "directV2", pc |-> "call", input |-> input, prompt |-> <<>>, calls |-> 0]

\* The second variant up to `await ai.generate(...)`: the input schema is
\* parsed, the template rendered and ai.generate called once.
DirectStartV2(i) ==
  /\ subs[i].caller = "directV2"
  /\ subs[i].pc = "call"
  /\ IF GenerateMarketingAssetTemplatesInputSchemaV2(subs[i].input)
       THEN /\ subs' = [subs EXCEPT ![i].pc = "generate",
                                    ![i].prompt = generationPrompt(subs[i].input),
                                    ![i].calls = subs[i].calls + 1]
            /\ event' = [op |-> "none"]
       ELSE /\ subs' = RemoveAt(subs, i)
            /\ event' = [op |-> "flowThrew", error |-> "ZodError",
                         call |-> [subs[i] EXCEPT !.pc = "zodError"]]
  /\ UNCHANGED <<form, generatedImage, isLoading, downloadFormat, preview, effectUrl,
                 objectUrls, imgLoads>>

\* ai.generate settles and the second variant returns or throws.
DirectSettleV2(i, outcome) ==
  /\ subs[i].caller = "directV2"
  /\ subs[i].pc = "generate"
  /\ subs' = RemoveAt(subs, i)
  /\ event' = IF FlowResult(outcome).ok
                THEN [op |-> "flowReturned", result |-> FlowResult(outcome), call |-> subs[i]]
                ELSE [op |-> "flowThrew", error |-> FlowResult(outcome).assetDataUri,
                      call |-> subs[i]]
  /\ UNCHANGED <<form, generatedImage, isLoading, downloadFormat, preview, effectUrl,
                 objectUrls, imgLoads>>

FlowNextV2 ==
  \/ \E i \in 1..Len(subs) : DirectStartV2(i)
  \/ \E i \in 1..Len(subs) : \E outcome \in ServiceOutcomes : DirectSettleV2(i, outcome)

FlowInitV2 ==
  /\ ClientInit
  /\ subs \in {<<DirectCallV2(input)>> : input \in FlowInputsV2}

\* One direct call of either variant of generateMarketingAssetTemplates.
FlowVariantsInit == FlowInit \/ FlowInitV2

FlowVariantsNext == FlowNext \/ FlowNextV2

FlowVariantsSpec == FlowVariantsInit /\ [][FlowVariantsNext]_vars

---------------------------------------------------------------------------
\* Properties.

\* The submissions that entered onSubmit and have not finished.
Pending == {i \in 1..Len(subs) : subs[i].caller = "onSubmit"}

\* The calls to the external image service that have not settled.
InGeneration == {i \in 1..Len(subs) : subs[i].pc = "generate"}

\* The logo is missing, or the business name, the asset type or the image
\* description is empty.
MissingRequired(values) ==
  \/ values.logo.nullish
  \/ Len(values.logo.items) = 0
  \/ values.businessName = ""
  \/ values.assetType = ""
  \/ values.imageDescription = ""

\* C1: a submission with a missing logo or an empty business name, asset
\* type or image description never enters onSubmit (so none of its files is
\* read and the flow is not called for it), and the step that rejects it
\* leaves isLoading, generatedImage and the pending submissions as they were.
C1_RejectedBeforeAnyCall ==
  /\ [](\A i \in Pending : ~MissingRequired(subs[i].values))
  /\ [][(MissingRequired(form) /\ event'.op = "invalid")
          => /\ isLoading' = isLoading
             /\ generatedImage' = generatedImage
             /\ subs' = subs]_vars

\* C1 witness: with an earlier image on screen, a submit without a logo has
\* just been rejected.
C1_Witness ==
  /\ event.op = "invalid"
  /\ form.logo.nullish
  /\ generatedImage = ServiceImage
  /\ subs = <<>>

\* C2 as stated: after a submission whose call returned no media, the
\* failure notification is shown and generatedImage still holds the image of
\* the earlier successful submission.
C2_PriorImageKept ==
  (event.op = "finished" /\ event.cause = "noMedia" /\ event.prior # null)
    => (event.toast = "Generation Failed" /\ generatedImage = event.prior)

\* C2 amended: after a submission whose call returned no media, the failure
\* notification is shown and generatedImage is null, whatever it held before
\* the submission.
C2_FailureShownImageCleared ==
  (event.op = "finished" /\ event.cause = "noMedia")
    => (event.toast = "Generation Failed" /\ generatedImage = null)

\* C2 witness: a no-media failure of a submission made while an earlier
\* image was shown.
C2_Witness ==
  /\ event.op = "finished"
  /\ event.cause = "noMedia"
  /\ event.prior = ServiceImage
  /\ generatedImage = null

\* C3: at most one call to generateMarketingAssetTemplates is in flight.
C3_OneRequestInFlight == Cardinality(InGeneration) <= 1

\* C3 witness: a call is in flight while the form on screen is valid, so
\* only the disabled button stands between the user and a second call.
C3_Witness ==
  /\ Cardinality(InGeneration) = 1
  /\ ~MissingRequired(form)
  /\ formSchema(form) = {}

\* C4: a submission that finishes, however it finishes, leaves isLoading
\* false, and isLoading is false whenever no submission is pending.
C4_ReadyForResubmission ==
  /\ event.op = "finished" => ~isLoading
  /\ Pending = {} => ~isLoading

\* C4 witness: a submission has just failed on a file that could not be read.
C4_Witness ==
  /\ event.op = "finished"
  /\ event.cause = "read"
  /\ ~isLoading

\* C5 as stated: every submission that entered onSubmit has made exactly one
\* call to the image service when it finishes, and every failure shows the
\* same notification.
C5_ExactlyOneCall ==
  event.op = "finished"
    => /\ event.calls = 1
       /\ event.cause # "media" => event.toast = "Generation Failed"

\* C5 amended: a submission makes at most one call to the image service:
\* exactly one when all its files were read, none when a file could not be
\* read; a call that returns no media fails the submission, and every
\* failure shows the same 'Generation Failed' notification.
C5_AtMostOneCall ==
  /\ \A i \in Pending : subs[i].calls <= 1
  /\ \A i \in Pending : subs[i].pc = "generate" => subs[i].calls = 1
  /\ event.op = "finished"
       => /\ event.calls = (IF event.cause = "read" THEN 0 ELSE 1)
          /\ event.cause # "media" => event.toast = "Generation Failed"
          /\ event.cause = "media" => event.toast = "Asset Generated!"
          /\ event.cause = "noMedia" => generatedImage # ServiceImage

\* C5 witness: a submission has failed on a call that returned no media,
\* after one call.
C5_Witness ==
  /\ event.op = "finished"
  /\ event.cause = "noMedia"
  /\ event.calls = 1
  /\ event.toast = "Generation Failed"

\* C6: a step that empties a file field which had a preview leaves that
\* preview null and its object URL revoked, and the other two previews as
\* they were.
C6_RemoveReleasesPreview ==
  [][\A f \in FileFields :
       (preview[f] # null /\ form'[f] = NoFiles)
         => /\ preview'[f] = null
            /\ preview[f] \notin objectUrls'
            /\ \A g \in FileFields \ {f} : preview'[g] = preview[g]]_vars

\* C6 witness: the logo has just been removed while reference image 1 keeps
\* its preview, the only object URL left.
C6_Witness ==
  /\ event.op = "remove"
  /\ event.field = "logo"
  /\ preview["logo"] = null
  /\ preview["referenceImage1"] # null
  /\ objectUrls = {preview["referenceImage1"]}

\* What a pixel looks like on a solid white background.
OnWhite(p) == (p.c * p.a + 255 * (255 - p.a)) \div 255

\* The JPEG of an image drawn over white, at the image's own size.
JpegOnWhite(uri) ==
  LET img == DecodeImage(uri)
  IN "data:image/jpeg;base64," \o
       ToString(<<img.width, img.height,
                  [i \in 1..Len(img.pixels) |-> OnWhite(img.pixels[i])]>>)

\* C7: a jpeg download is the generated image over solid white at the same
\* width and height; a png download is the generatedImage data URI itself.
C7_DownloadConversion ==
  event.op = "download"
    => IF event.format = "jpeg"
         THEN event.href = JpegOnWhite(event.src)
         ELSE event.href = generatedImage /\ event.src = generatedImage

\* C7 witness: a jpeg has been saved from an image that has a transparent
\* pixel.
C7_Witness ==
  /\ event.op = "download"
  /\ event.format = "jpeg"
  /\ \E i \in 1..Len(DecodeImage(event.src).pixels) : DecodeImage(event.src).pixels[i].a = 0

\* A file within the allow-list and the size ceiling.
AllowedFile(file) ==
  /\ file.type \in {"image/jpeg", "image/jpg", "image/png", "image/webp"}
  /\ file.size <= 5 * 1024 * 1024

\* The attached files are allowed: one logo, and each reference image absent,
\* empty or allowed.
AllowedFiles(values) ==
  /\ ~values.logo.nullish
  /\ Len(values.logo.items) = 1
  /\ AllowedFile(values.logo.items[1])
  /\ \A f \in {"referenceImage1", "referenceImage2"} :
       \/ values[f].nullish
       \/ Len(values[f].items) = 0
       \/ AllowedFile(values[f].items[1])

\* C8: every submission whose call is in flight attached allowed files only,
\* and a form is rejected only for a file that is not allowed or a text field
\* that is too short (so a file of exactly 5*1024*1024 bytes and an absent or
\* empty reference image do not get a form rejected).
C8_FileValidation ==
  /\ \A i \in Pending : subs[i].pc = "generate" => AllowedFiles(subs[i].values)
  /\ event.op = "invalid"
       => \/ ~AllowedFiles(form)
          \/ Len(form.businessName) < 2
          \/ form.assetType = ""
          \/ form.imageDescription = ""

\* C8 witness: a call is in flight for a logo of exactly 5*1024*1024 bytes
\* and an empty reference image 1.
C8_Witness ==
  \E i \in Pending :
    /\ subs[i].pc = "generate"
    /\ subs[i].values.logo.items[1].size = 5 * 1024 * 1024
    /\ ~subs[i].values.referenceImage1.nullish
    /\ subs[i].values.referenceImage1.items = <<>>

\* C9 as stated: no call to the image service is made for a direct call whose
\* logo, business name, asset type or image description is an empty string.
C9_EmptyRequiredFieldFails ==
  \A i \in InGeneration :
    /\ subs[i].input.businessLogoDataUri # ""
    /\ subs[i].input.businessName # ""
    /\ subs[i].input.assetType # ""
    /\ subs[i].input.imageDescription # ""

\* A reference image counts as present when it is a non-empty string.
Present(uri) == uri # undefined /\ uri # ""

\* C10: the prompt is the instruction text, the logo, then for each present
\* reference image, 1 before 2, its label followed by the image: 2 + 2k
\* segments for k present reference images, every image right after a text.
C10_PromptSequence ==
  \A i \in InGeneration :
    LET p == subs[i].prompt
        input == subs[i].input
        k1 == IF Present(input.referenceImage1DataUri) THEN 1 ELSE 0
        k2 == IF Present(input.referenceImage2DataUri) THEN 1 ELSE 0
    IN /\ Len(p) = 2 + 2 * (k1 + k2)
       /\ p[1].kind = "text"
       /\ p[1].text \notin {"Reference Image 1:", "Reference Image 2:"}
       /\ p[2] = [kind |-> "media", url |-> input.businessLogoDataUri]
       /\ k1 = 1 => /\ p[3] = [kind |-> "text", text |-> "Reference Image 1:"]
                    /\ p[4] = [kind |-> "media", url |-> input.referenceImage1DataUri]
       /\ k2 = 1 => /\ p[3 + 2 * k1] = [kind |-> "text", text |-> "Reference Image 2:"]
                    /\ p[4 + 2 * k1] = [kind |-> "media", url |-> input.referenceImage2DataUri]
       /\ \A j \in 1..Len(p) : p[j].kind = "media" => (j > 1 /\ p[j - 1].kind = "text")

\* C10 witness: a call is in flight with both reference images, in six
\* segments.
C10_Witness ==
  \E i \in InGeneration :
    /\ Present(subs[i].input.referenceImage1DataUri)
    /\ Present(subs[i].input.referenceImage2DataUri)
    /\ Len(subs[i].prompt) = 6

\* text contains s.
Contains(text, s) ==
  \E k \in 1..(Len(text) - Len(s) + 1) : SubSeq(text, k, k + Len(s) - 1) = s

\* The text segments of a prompt, in order, as one text.
RECURSIVE TextOf(_)
TextOf(prompt) ==
  IF prompt = <<>> THEN ""
  ELSE (IF Head(prompt).kind = "text" THEN Head(prompt).text ELSE "") \o TextOf(Tail(prompt))

\* The prompt tells the model to use reference images for inspiration only
\* and not to copy their text or graphics.
InspirationOnly(prompt) ==
  /\ Contains(TextOf(prompt), "use them for general inspiration only")
  /\ Contains(TextOf(prompt), "Do not copy any text or graphics from the reference images")

\* C11 as stated: every prompt sent to the image service, by either variant of
\* generateMarketingAssetTemplates and with or without reference images,
\* carries the inspiration-only instruction.
C11_InspirationOnlyInEveryPrompt ==
  \A i \in InGeneration : InspirationOnly(subs[i].prompt)

\* The part of C11 the code keeps: the variant that accepts reference images
\* sends the instruction with every prompt.
C11_InspirationOnlyInFirstVariant ==
  \A i \in InGeneration : subs[i].caller = "direct" => InspirationOnly(subs[i].prompt)

\* The places where s occurs in text.
Occurrences(text, s) ==
  {k \in 1..(Len(text) - Len(s) + 1) : SubSeq(text, k, k + Len(s) - 1) = s}

\* The prompt the called variant assembles for an input.
PromptFor(sub, input) ==
  IF sub.caller = "directV2" THEN generationPrompt(input) ELSE BuildPrompt(input)

\* What a present optional value adds to the text: the value, in quotes in the
\* template variant.
ValuePart(sub, value) ==
  IF sub.caller = "directV2" THEN "'" \o value \o "'" ELSE value

OptionalLabels ==
  [customText |-> "\nCustom Text: ", colorPalette |-> "\nColor Palette: "]

\* C12 as stated: when customText (colorPalette) is undefined or empty, the
\* prompt text has no custom-text (color-palette) label.
C12_AbsentOptionalHasNoLabel ==
  \A i \in InGeneration : \A f \in DOMAIN OptionalLabels :
    ~Truthy(subs[i].input[f]) =>
      ~Contains(TextOf(subs[i].prompt), OptionalLabels[f])

\* C12, amended: the label of an optional field is always in the prompt text,
\* once; when the field is undefined or empty nothing follows the label on
\* its line and the text is that of the input without the field; when it is
\* present the text is the text of the input without the field, with the
\* value put right after the label.
C12_AbsentOptionalLeavesEmptyLabel ==
  \A i \in InGeneration : \A f \in DOMAIN OptionalLabels :
    LET text == TextOf(subs[i].prompt)
        label == OptionalLabels[f]
        value == subs[i].input[f]
        without == TextOf(PromptFor(subs[i], [subs[i].input EXCEPT ![f] = undefined]))
        at == Occurrences(without, label)
    IN /\ Cardinality(Occurrences(text, label)) = 1
       /\ Cardinality(at) = 1
       /\ \A k \in at :
            LET cut == k + Len(label) - 1
            IN /\ SubSeq(without, cut + 1, cut + 1) = "\n"
               /\ ~Truthy(value) => text = without
               /\ Truthy(value) =>
                    text = SubSeq(without, 1, cut) \o ValuePart(subs[i], value)
                           \o SubSeq(without, cut + 1, Len(without))

\* C12 witness: a prompt was sent for an input with an empty custom text and
\* a color palette.
C12_Witness ==
  \E i \in InGeneration :
    /\ subs[i].input.customText = ""
    /\ subs[i].input.colorPalette = "blue"
    /\ Contains(TextOf(subs[i].prompt), "\nCustom Text: \nColor Palette: ")

\* The data URI onSubmit holds for a file field once it has been converted.
Converted(files) ==
  IF HasFile(files) THEN fileToDataUri(files.items[1]) ELSE undefined

\* C13: the conversions of one submission run in the order logo, reference
\* image 1, reference image 2, each one starting only when the ones before it
\* have finished; the generation call is made only with all of them done; a
\* submission whose conversion fails ends with the failure notification and
\* without a call.
C13_SequentialConversions ==
  /\ \A i \in Pending :
       LET sub == subs[i]
           logo == Converted(sub.values.logo)
           ref1 == Converted(sub.values.referenceImage1)
           ref2 == Converted(sub.values.referenceImage2)
       IN /\ sub.pc \in {"readLogo", "readRef1", "readRef2", "generate"}
          /\ sub.pc = "readLogo" =>
               /\ sub.businessLogoDataUri = undefined
               /\ sub.referenceImage1DataUri = undefined
               /\ sub.referenceImage2DataUri = undefined
          /\ sub.pc = "readRef1" =>
               /\ HasFile(sub.values.referenceImage1)
               /\ sub.businessLogoDataUri = logo
               /\ sub.referenceImage1DataUri = undefined
               /\ sub.referenceImage2DataUri = undefined
          /\ sub.pc = "readRef2" =>
               /\ HasFile(sub.values.referenceImage2)
               /\ sub.businessLogoDataUri = logo
               /\ sub.referenceImage1DataUri = ref1
               /\ sub.referenceImage2DataUri = undefined
          /\ sub.pc # "generate" => sub.calls = 0 /\ sub.prompt = <<>>
          /\ sub.pc = "generate" =>
               /\ sub.calls = 1
               /\ sub.input.businessLogoDataUri = logo
               /\ sub.input.referenceImage1DataUri = ref1
               /\ sub.input.referenceImage2DataUri = ref2
  /\ (event.op = "finished" /\ event.cause = "read") =>
       /\ event.calls = 0
       /\ event.toast = "Generation Failed"

\* C13 witness: the generation call of a submission with a logo and both
\* reference images is in flight, all three converted.
C13_Witness ==
  \E i \in Pending :
    /\ subs[i].pc = "generate"
    /\ HasFile(subs[i].values.referenceImage1)
    /\ HasFile(subs[i].values.referenceImage2)
    /\ subs[i].input.referenceImage2DataUri = fileToDataUri(PngAtLimit)

\* C14: a file is saved as '<business name>-asset.<format>', the format being
\* png or jpeg and the business name the one in the form when the file is
\* saved, 'brandboost' standing in for an empty one.
C14_DownloadFileName ==
  event.op = "download" =>
    /\ event.format \in {"png", "jpeg"}
    /\ event.format = "png" => downloadFormat = "png"
    /\ form.businessName # "" =>
         event.download = form.businessName \o "-asset." \o event.format
    /\ form.businessName = "" =>
         event.download = "brandboost-asset." \o event.format

\* C14 witness: a jpeg was saved while the business name field was empty.
C14_Witness ==
  /\ event.op = "download"
  /\ form.businessName = ""
  /\ event.download = "brandboost-asset.jpeg"

\* C15: the step that ends a submission shows one notification: the success
\* one, with generatedImage set to the non-empty image the service returned,
\* or the failure one, with generatedImage left as it was; a result without
\* media, with an empty assetDataUri, an error of the service or of a file
\* conversion is a failure; generatedImage is never an empty value.
C15_OneOutcomePerSubmission ==
  /\ [](generatedImage \in {null, ServiceImage})
  /\ [][Len(subs') < Len(subs) =>
          /\ Len(subs') = Len(subs) - 1
          /\ event'.op = "finished"
          /\ \/ /\ event'.toast = "Asset Generated!"
                /\ event'.cause = "media"
                /\ generatedImage' = FlowResult(event'.cause).assetDataUri
                /\ generatedImage' # ""
             \/ /\ event'.toast = "Generation Failed"
                /\ event'.cause \in {"emptyUrl", "noMedia", "error", "read"}
                /\ generatedImage' = generatedImage
                /\ generatedImage' = null]_vars

\* C15 witness: a submission has ended in failure on a result whose
\* assetDataUri is empty, and no image is set.
C15_Witness ==
  /\ event.op = "finished"
  /\ event.cause = "emptyUrl"
  /\ event.toast = "Generation Failed"
  /\ generatedImage = null

\* C16: isLoading is true exactly while a submission is between the start of
\* onSubmit and its finally block; while a file conversion or a generation
\* request is pending the submit and download buttons are disabled and
\* generatedImage is null.
C16_LoadingWhilePending ==
  /\ isLoading <=> Pending # {}
  /\ \A i \in Pending :
       /\ subs[i].pc \in {"readLogo", "readRef1", "readRef2", "generate"}
       /\ isLoading
       /\ ~SubmitEnabled
       /\ ~DownloadEnabled
       /\ generatedImage = null

\* C16 witness: a generation request is pending for a submission made while
\* an earlier image was shown.
C16_Witness ==
  \E i \in Pending :
    /\ subs[i].pc = "generate"
    /\ subs[i].prior = ServiceImage
    /\ isLoading
    /\ generatedImage = null

\* C17: the download button is enabled only with an image shown and nothing
\* loading; a download starts only from a state with an image; every image
\* being converted and every file saved comes from the image the service
\* returned to a successful submission, as it is or painted for jpeg.
C17_DownloadOnlyOfGeneratedAsset ==
  /\ [](DownloadEnabled => (generatedImage # null /\ ~isLoading))
  /\ [](\A i \in 1..Len(imgLoads) : imgLoads[i] = ServiceImage)
  /\ [](event.op = "download" =>
          /\ event.src = ServiceImage
          /\ event.href \in {event.src, toDataURLJpeg(PaintedCanvas(DecodeImage(event.src)))})
  /\ [][(\/ Len(imgLoads') > Len(imgLoads)
         \/ (event'.op = "download" /\ event'.format = "png"))
        => (generatedImage = ServiceImage /\ ~isLoading)]_vars
  /\ [][generatedImage' = ServiceImage =>
          \/ generatedImage = ServiceImage
          \/ (event'.op = "finished" /\ event'.toast = "Asset Generated!")]_vars

\* C17 witness: a jpeg made from the image of an earlier submission is saved
\* while a later submission is still pending.
C17_Witness ==
  /\ event.op = "download"
  /\ event.format = "jpeg"
  /\ event.src = ServiceImage
  /\ isLoading
  /\ generatedImage = null

====
